---------------------------- MODULE Spec2Model ----------------------------
(***************************************************************************)
(* The image/file transfer server of RepliCode: the connection handler     *)
(* handle_client and the accept loop of main, in its two variants, the     *)
(* native server (src/test/native_image_server.c) and the WASI server      *)
(* (src/wasm_programs/image_server.c).  Bytes are integers 0..255, strings *)
(* and byte streams are sequences of bytes.                                *)
(***************************************************************************)
EXTENDS Integers, Sequences, FiniteSets, TLC

\* ------------------------------------------------------------------ bounds
\* Connections the listener accepts in one run.
MaxConns == 2
\* Largest body length a client declares in a SEND.
MaxLen == 2
\* Largest number of whole chunks in a length of the chunk counting specification.
MaxChunks == 2
\* Largest number of bytes by which a line or a filename exceeds its limit.
MaxExtra == 2

\* ------------------------------------------------------ program constants
BUF_SIZE == 4096
MAX_FILENAME == 256
MAX_CMD_SIZE == 1024
\* ' ', '\n', '\r', '\t' and the string terminator
SP == 32
NL == 10
CR == 13
TAB == 9
NUL == 0
MAX_ENTRIES == 100
MAX_KEY == 128
MAX_VAL == 1024

Variants == {"native", "wasi"}

\* "SEND", "GET", and the three literal replies
SEND_VERB == <<83, 69, 78, 68>>
GET_VERB == <<71, 69, 84>>
OK_REPLY == <<79, 75, 10>>
UNKNOWN_REPLY == <<69, 82, 82, 79, 82, 58, 32, 85, 110, 107, 110, 111, 119, 110,
                   32, 99, 111, 109, 109, 97, 110, 100, 10>>
NOTFOUND_REPLY == <<69, 82, 82, 79, 82, 58, 32, 70, 105, 108, 101, 32, 110, 111,
                    116, 32, 102, 111, 117, 110, 100, 10>>

\* ---------------------------------------------------------------- helpers
Min(a, b) == IF a < b THEN a ELSE b

Prefix(s, n) == SubSeq(s, 1, n)

Suffix(s, n) == SubSeq(s, n + 1, Len(s))

MinOf(S) == CHOOSE x \in S : \A y \in S : x <= y

MaxOf(S) == CHOOSE x \in S : \A y \in S : x >= y

\* A C string held in a buffer ends at its first NUL byte.
CStrLen(s) ==
    LET nuls == {i \in 1..Len(s) : s[i] = NUL}
    IN  IF nuls = {} THEN Len(s) ELSE MinOf(nuls) - 1

CStr(s) == Prefix(s, CStrLen(s))

\* strtok(s, " "): skip the leading delimiters, then the token runs to the
\* next delimiter or to the end of the string; the scan resumes after it.
SkipDelims(s) ==
    LET others == {i \in 1..Len(s) : s[i] # SP}
    IN  IF others = {} THEN <<>> ELSE Suffix(s, MinOf(others) - 1)

TokenLen(s) ==
    LET delims == {i \in 1..Len(s) : s[i] = SP}
    IN  IF delims = {} THEN Len(s) ELSE MinOf(delims) - 1

HasToken(s) == SkipDelims(s) # <<>>

FirstToken(s) == Prefix(SkipDelims(s), TokenLen(SkipDelims(s)))

AfterToken(s) == Suffix(SkipDelims(s), TokenLen(SkipDelims(s)) + 1)

\* trim_end of the WASI server: trailing ' ', '\n', '\r' are removed.
trim_end_wasi(s) ==
    LET kept == {i \in 1..Len(s) : s[i] \notin {SP, NL, CR}}
    IN  IF kept = {} THEN <<>> ELSE Prefix(s, MaxOf(kept))

\* trim_end of the native server: trailing, then leading ' ', '\n', '\r', '\t'.
TrimTrailNative(s) ==
    LET kept == {i \in 1..Len(s) : s[i] \notin {SP, NL, CR, TAB}}
    IN  IF kept = {} THEN <<>> ELSE Prefix(s, MaxOf(kept))

TrimLeadNative(s) ==
    LET kept == {i \in 1..Len(s) : s[i] \notin {SP, NL, CR, TAB}}
    IN  IF kept = {} THEN <<>> ELSE Suffix(s, MinOf(kept) - 1)

trim_end_native(s) == TrimLeadNative(TrimTrailNative(s))

\* ntohl of four received bytes: the big-endian unsigned 32-bit value (four
\* bytes of 0..255 never exceed 32 bits, so no reduction is needed).
ntohl(b) == (b[1] * 16777216) + (b[2] * 65536) + (b[3] * 256) + b[4]

\* Faulty variant (sensitivity of C4): the header in little-endian order.
size_bytes_le(n) ==
    << n % 256, (n \div 256) % 256, (n \div 65536) % 256, (n \div 16777216) % 256 >>

\* The four header bytes of a length, most significant first.
size_bytes(n) ==
    << (n \div 16777216) % 256, (n \div 65536) % 256, (n \div 256) % 256, n % 256 >>

\* write(fd, buf, n) at file offset pos.
Overlay(content, pos, bytes) ==
    Prefix(content, pos) \o bytes \o Suffix(content, Min(Len(content), pos + Len(bytes)))

\* ------------------------------------------------------- client streams
BodyBytes == {1, 2}

\* The client's send_image: the four size bytes it sends, most significant first.
client_size_buf(n) ==
    << (n \div 16777216) % 256, (n \div 65536) % 256, (n \div 256) % 256, n % 256 >>

\* The codec over the whole unsigned 32-bit range.  A value is held as its two
\* 16-bit halves << n >> 16, n & 0xFFFF >>, so that no intermediate exceeds 31 bits.
\* The server's GET header, size_bytes[0..3]: (file_size >> 24) & 0xFF, ...
size_bytes_u32(w) ==
    << (w[1] \div 256) % 256, w[1] % 256, (w[2] \div 256) % 256, w[2] % 256 >>

\* The client's send_image, size_buf[0..3]: (total>>24)&0xFF, ...
send_image_size_buf(w) ==
    << (w[1] \div 256) % 256, w[1] % 256, (w[2] \div 256) % 256, w[2] % 256 >>

\* Faulty variant (sensitivity of C24): the bytes taken in host (little-endian) order.
ntohl_host_order(b) == << (b[4] * 256) + b[3], (b[2] * 256) + b[1] >>

\* The server's ntohl: bytes[0] << 24 | bytes[1] << 16 | bytes[2] << 8 | bytes[3],
\* each byte widened to uint32_t first.
ntohl_u32(b) == << (b[1] * 256) + b[2], (b[3] * 256) + b[4] >>

\* The client's get_image: img_size = size_buf[0]<<24 | size_buf[1]<<16 |
\* size_buf[2]<<8 | size_buf[3].  The bytes are promoted to int, not widened to
\* uint32_t; the 32-bit shift of the build keeps bit 31 and the conversion to
\* uint32_t gives the same bits.
get_image_img_size(b) == << (b[1] * 256) + b[2], (b[3] * 256) + b[4] >>

\* A 32-bit value below 2^31 as a number.
U32ToInt(w) == (w[1] * 65536) + w[2]

RECURSIVE SeqsUpTo(_, _)
SeqsUpTo(S, n) ==
    IF n = 0 THEN {<<>>}
    ELSE LET shorter == SeqsUpTo(S, n - 1)
         IN shorter \cup {Append(s, x) : s \in {t \in shorter : Len(t) = n - 1}, x \in S}

\* "SEND a\n", then the header of a length L and at most L + 1 body bytes, or
\* only a part of the header.
SendLine == <<83, 69, 78, 68, 32, 97, 10>>

SendStreams ==
    UNION { {SendLine \o client_size_buf(L) \o b : b \in SeqsUpTo(BodyBytes, L + 1)} :
            L \in 0..MaxLen }
    \cup {SendLine \o Prefix(client_size_buf(1), j) : j \in 0..3}

\* "GET a\n", "GET a \n", alone or followed by the acknowledgment "OK\n", by
\* its first byte only, or by the three other bytes "NO\n".
GetLine == <<71, 69, 84, 32, 97, 10>>

GetLineSp == <<71, 69, 84, 32, 97, 32, 10>>

GetStreams ==
    {l \o t : l \in {GetLine, GetLineSp},
              t \in {<<>>, OK_REPLY, Prefix(OK_REPLY, 1), <<78, 79, 10>>}}

\* "PUT a\n" alone or followed by more bytes; a line cut before its newline; nothing.
OtherStreams ==
    { <<80, 85, 84, 32, 97, 10>>, <<80, 85, 84, 32, 97, 10>> \o GetLine, <<71, 69>>, <<>> }

Streams == SendStreams \cup GetStreams \cup OtherStreams

\* ------------------------------------------------------------------ state
VARIABLES
    variant,     \* which server runs: "native" or "wasi"
    fs,          \* the files of the working directory: name -> content
    nconn,       \* connections accepted so far; the current one is nconn
    pc,          \* where the server is, "accept" when in main's loop
    sock,        \* per connection: "none", "open", "shutwr", "closed"
    phase,       \* per connection: "none", "active" (in handle_client), "returned"
    stream,      \* the bytes the current client sends before it disconnects
    rpos,        \* how many of them the server has consumed
    cmd_buf,     \* the command line as received
    branch,      \* "none", "send", "get", "unknown"
    filename,    \* the name passed to open
    file_size,   \* the declared (SEND) or stat'ed (GET) length
    remaining,   \* the copy loop's counter
    total,       \* total_written (SEND) or total_sent (GET)
    fd,          \* the open file: "none", "w", "r"
    fpos,        \* its offset
    out,         \* the bytes the server has written on the current connection
    fault,       \* an I/O call of this session failed or was cut short
    failedAt,    \* the step at which this session gave up, "none" otherwise
    linesRead,   \* command lines read from the current connection
    prevLen,     \* length of the destination file before SEND opened it, -1 if absent
    acked,       \* name -> body of the last acknowledged SEND "SEND <name>\n"
    events,      \* what this session has done so far, in order
    iters,       \* iterations of the copy loop so far
    shortRead,   \* a read of the copy loop returned fewer bytes than requested
    partial,     \* names whose last SEND lost its peer inside the receive loop
    prev,        \* what the previous session wrote and how it ended
    silent,      \* the peer stays connected once its bytes are sent
    c_pc,        \* the client: "off", "wait_ok", "hdr", "body", "shutdown", "done"
    c_rpos,      \* how many of the server's bytes the client has received
    got,         \* the client's got: bytes of the current item received so far
    size_buf,    \* the client's size_buf, as far as it is filled
    img_size,    \* the client's img_size, -1 before it is decoded
    left,        \* the client's left
    c_buf,       \* the client's chunk buffer buf, as far as it is filled
    img_fd,      \* the client's local file: "none", "open", "closed"
    img_data,    \* the content of the client's local file
    c_last,      \* what the client's last recv returned, 1 before the first
    codec_n,     \* the length codec applied to a value: the value as <<high, low>> halves,
    codec_by,    \* the encoder and the decoder applied so far,
    codec_bytes, \* the 4 bytes encoded,
    codec_out,   \* and the value decoded from them
    c_fault,     \* the client met a receive error, a failed create or a short write
    st_size,     \* the GET header on its own: the file's st_size as << bits 47..32, 31..16, 15..0 >>
    keys,        \* the key-value server: keys[0..99], here slots 1..100
    values,      \* values[0..99], here slots 1..100
    num_entries, \* the number of slots in use
    kv_cmd,      \* the command handled last: verb, table function called, key, value, reply
    kv_ret,      \* what set_key, get_key or del_key returned for it
    kv_out       \* what the server sent in answer to it

vars == << variant, fs, nconn, pc, sock, phase, stream, rpos, cmd_buf, branch,
           filename, file_size, remaining, total, fd, fpos, out, fault, failedAt,
           linesRead, prevLen, acked, events, iters, shortRead, partial, prev,
           silent, c_pc, c_rpos, got, size_buf, img_size, left, c_buf, img_fd,
           img_data, c_last, codec_n, codec_by, codec_bytes, codec_out, c_fault,
           st_size, keys, values, num_entries, kv_cmd, kv_ret, kv_out >>

\* The client's variables, those of the codec, and the record of the previous
\* session: no step of the server touches them.
clientVars == << c_pc, c_rpos, got, size_buf, img_size, left, c_buf, img_fd,
                 img_data, c_last, c_fault >>

\* The key-value server's table and the record of its last command.
kvVars == << keys, values, num_entries, kv_cmd, kv_ret, kv_out >>

codecVars == << codec_n, codec_by, codec_bytes, codec_out >>

sideVars == << prev, silent, clientVars, codecVars, st_size, kvVars >>

Conns == 1..MaxConns

EmptyMap == [x \in {} |-> <<>>]

MapSet(f, k, v) == [x \in (DOMAIN f) \cup {k} |-> IF x = k THEN v ELSE f[x]]

MapDel(f, k) == [x \in (DOMAIN f) \ {k} |-> f[x]]

Avail == Len(stream) - rpos

\* recv(client_fd, buf, n): -1 on error, 0 once the peer has sent everything and
\* gone, else between 1 and n of the bytes that are left.  With everything
\* read and the peer still connected the call does not return.
RecvResults(n) ==
    IF Avail = 0 /\ silent THEN {}
    ELSE {-1} \cup (IF Avail = 0 THEN {0} ELSE 1..Min(n, Avail))

\* send(client_fd, buf, n): the number of bytes taken, n when all went out.
SendResults(n) == 0..n

NoPrev == [branch |-> "none", why |-> "none", fault |-> FALSE, out |-> <<>>]

\* No client and no codec at work, no earlier session, a peer that disconnects.
ClientOff ==
    /\ c_pc = "off"
    /\ c_rpos = 0
    /\ got = 0
    /\ size_buf = <<>>
    /\ img_size = -1
    /\ left = 0
    /\ c_buf = <<>>
    /\ img_fd = "none"
    /\ img_data = <<>>
    /\ c_last = 1
    /\ c_fault = FALSE

\* The key-value server not started: the zero-initialised globals.
KvOff ==
    /\ keys = [i \in 1..MAX_ENTRIES |-> <<>>]
    /\ values = [i \in 1..MAX_ENTRIES |-> <<>>]
    /\ num_entries = 0
    /\ kv_cmd = <<>>
    /\ kv_ret = 0
    /\ kv_out = <<>>

CodecOff ==
    /\ codec_n = <<0, 0>>
    /\ codec_by = <<>>
    /\ codec_bytes = <<>>
    /\ codec_out = <<>>

Init ==
    /\ variant \in Variants
    /\ fs = EmptyMap
    /\ nconn = 0
    /\ pc = "accept"
    /\ sock = [c \in Conns |-> "none"]
    /\ phase = [c \in Conns |-> "none"]
    /\ stream = <<>>
    /\ rpos = 0
    /\ cmd_buf = <<>>
    /\ branch = "none"
    /\ filename = <<>>
    /\ file_size = 0
    /\ remaining = 0
    /\ total = 0
    /\ fd = "none"
    /\ fpos = 0
    /\ out = <<>>
    /\ fault = FALSE
    /\ failedAt = "none"
    /\ linesRead = 0
    /\ prevLen = -1
    /\ acked = EmptyMap
    /\ events = <<>>
    /\ iters = 0
    /\ shortRead = FALSE
    /\ partial = {}
    /\ prev = NoPrev
    /\ st_size = <<0, 0, 0>>
    /\ KvOff
    /\ silent = FALSE
    /\ ClientOff
    /\ CodecOff

\* handle_client returns to main's loop without touching the socket.
Return(why) ==
    /\ pc' = "accept"
    /\ phase' = [phase EXCEPT ![nconn] = "returned"]
    /\ failedAt' = why

\* Faulty variant (sensitivity of C8): a failed create is answered like a failed open.
FailReplyOnCreate(why) == IF why \in {"notfound", "open"} THEN NOTFOUND_REPLY ELSE <<>>

\* What the server writes on the connection before it gives up at a step: the
\* text reply when the file of a GET cannot be opened, and nothing anywhere else.
FailReply(why) == IF why = "notfound" THEN NOTFOUND_REPLY ELSE <<>>

\* An early return of handle_client at step why: the reply of that step, if
\* any, is sent with its result ignored, and the function returns.
Fail(why, ioerr) ==
    /\ \E s \in SendResults(Len(FailReply(why))) :
          /\ out' = out \o Prefix(FailReply(why), s)
          /\ fault' = (fault \/ ioerr \/ s < Len(FailReply(why)))
    /\ Return(why)

\* Faulty variant (sensitivity of C2): the loop test off by one, while (remaining > 1).
LoopDoneOffByOne(rem) == rem <= 1

\* The while (remaining > 0) test of both copy loops.
LoopDone(rem) == rem = 0

\* Faulty variant (sensitivity of C3): the open without O_TRUNC.
CreateNoTrunc(files, name) ==
    IF name \in DOMAIN files THEN files ELSE MapSet(files, name, <<>>)

\* open(filename, O_WRONLY | O_CREAT | O_TRUNC): the file exists and is empty.
CreateTrunc(files, name) == MapSet(files, name, <<>>)

\* Faulty variant (sensitivity of C11): the close(fd) after the loop left out.
FdLeftOpen(mode, closes) == mode

\* The file handle after a step: close(fd) follows the loop and every failure.
FdAfter(mode, closes) == IF closes THEN "none" ELSE mode

\* The record of the session's steps: "len", "open", "body", "close", "hdr",
\* "ack", "wait_ack", "shutdown"; consecutive loop iterations are one "body".
Ev(seq, e) == Append(seq, e)

EvBody(seq) == IF seq # <<>> /\ seq[Len(seq)] = "body" THEN seq ELSE Append(seq, "body")

EvClose(seq, mode, closes) ==
    IF FdAfter(mode, closes) = "none" THEN Append(seq, "close") ELSE seq

\* Faulty variant (sensitivity of C26): every request for a whole buffer.
ToReadBuffer(rem) == BUF_SIZE

\* Faulty variant (sensitivity of C16): the request not capped at the buffer size.
ToReadNoCap(rem) == rem

\* to_read of the receive loop: remaining > BUF_SIZE ? BUF_SIZE : remaining.
ToRead(rem) == IF rem > BUF_SIZE THEN BUF_SIZE ELSE rem

\* Faulty variant (sensitivity of C10): accept not waiting for handle_client.
CanAcceptAnytime == TRUE

\* main calls accept only from its loop, after handle_client has returned.
CanAccept == pc = "accept"

\* main: accept a connection whose peer sends one of the streams S, and call
\* handle_client.
AcceptFrom(S) ==
    /\ CanAccept
    /\ nconn < MaxConns
    /\ \E s \in S : stream' = s
    /\ nconn' = nconn + 1
    /\ sock' = [sock EXCEPT ![nconn + 1] = "open"]
    /\ phase' = [phase EXCEPT ![nconn + 1] = "active"]
    /\ pc' = "read_cmd"
    /\ rpos' = 0
    /\ cmd_buf' = <<>>
    /\ branch' = "none"
    /\ filename' = <<>>
    /\ file_size' = 0
    /\ remaining' = 0
    /\ total' = 0
    /\ fpos' = 0
    /\ out' = <<>>
    /\ fault' = FALSE
    /\ failedAt' = "none"
    /\ linesRead' = 0
    /\ prevLen' = -1
    /\ events' = <<>>
    /\ iters' = 0
    /\ shortRead' = FALSE
    /\ UNCHANGED << variant, fs, fd, acked >>
    /\ UNCHANGED << partial, silent, clientVars, codecVars, st_size, kvVars >>

\* main: accept a connection and call handle_client.
Accept == AcceptFrom(Streams) /\ UNCHANGED prev

\* The parse that follows the read loop: strtok for the verb, strcmp against
\* "SEND" and "GET", strtok for the filename, and the variant's trimming.
\* SEND trims in both servers; GET trims in the native server only.
ParsedName(v, verb, tok) ==
    IF v = "native" THEN trim_end_native(tok)
    ELSE IF verb = "send" THEN trim_end_wasi(tok)
    ELSE tok

Parse(v, buf) ==
    LET s == CStr(buf)
        cmd == FirstToken(s)
        rest == AfterToken(s)
        verb == IF cmd = SEND_VERB THEN "send"
                ELSE IF cmd = GET_VERB THEN "get" ELSE "unknown"
    IN  IF ~HasToken(s)
        THEN [ok |-> FALSE, why |-> "nocmd", branch |-> "none", name |-> <<>>]
        ELSE IF verb = "unknown"
        THEN [ok |-> TRUE, why |-> "none", branch |-> "unknown", name |-> <<>>]
        ELSE IF ~HasToken(rest)
        THEN [ok |-> FALSE, why |-> "nofile", branch |-> verb, name |-> <<>>]
        ELSE [ok |-> TRUE, why |-> "none", branch |-> verb,
              name |-> ParsedName(v, verb, FirstToken(rest))]

\* Faulty variant (sensitivity of C27): a SEND that creates the file at once.
FirstStepCreates(br) ==
    IF br = "send" THEN "open_w" ELSE IF br = "get" THEN "get_open" ELSE "unknown"

\* The branch taken after the parse: SEND starts with the length, GET with the open.
FirstStep(br) ==
    IF br = "send" THEN "recv_len" ELSE IF br = "get" THEN "get_open" ELSE "unknown"

\* Faulty variant (sensitivity of C17): the loop without its size limit.
LineCompleteNoCap(byte, n) == byte = NL

\* The exit of the command read loop: the byte just stored is a newline, or
\* total_received has reached MAX_CMD_SIZE - 1.
LineComplete(byte, n) == byte = NL \/ n >= MAX_CMD_SIZE - 1

\* One iteration of the command read loop: recv of one byte, and, once the line
\* is complete (newline, or MAX_CMD_SIZE - 1 bytes), the parse and the dispatch.
RecvCmdByte ==
    /\ pc = "read_cmd"
    /\ \E r \in RecvResults(1) :
        IF r <= 0
        THEN /\ Fail("cmd", r < 0)
             /\ UNCHANGED << rpos, cmd_buf, branch, filename, linesRead >>
        ELSE LET buf == Append(cmd_buf, stream[rpos + 1])
                 complete == LineComplete(stream[rpos + 1], Len(buf))
                 p == Parse(variant, buf)
             IN  /\ rpos' = rpos + 1
                 /\ cmd_buf' = buf
                 /\ IF ~complete
                    THEN UNCHANGED << pc, phase, failedAt, branch, filename,
                                      linesRead, out, fault >>
                    ELSE /\ linesRead' = linesRead + 1
                         /\ branch' = p.branch
                         /\ filename' = p.name
                         /\ IF p.ok
                            THEN /\ pc' = FirstStep(p.branch)
                                 /\ UNCHANGED << phase, failedAt, out, fault >>
                            ELSE Fail(p.why, FALSE)
    /\ UNCHANGED << variant, fs, nconn, sock, stream, file_size, remaining, total,
                    fd, fpos, prevLen, acked, events, iters, shortRead >>
    /\ UNCHANGED << partial, sideVars >>

\* SEND: one recv of sizeof(file_size) bytes; anything but 4 bytes ends the session.
RecvLength ==
    /\ pc = "recv_len"
    /\ \E r \in RecvResults(4) :
        IF r # 4
        THEN /\ Fail("len", r < 0)
             /\ rpos' = rpos + (IF r > 0 THEN r ELSE 0)
             /\ UNCHANGED << file_size, events >>
        ELSE /\ file_size' = ntohl(SubSeq(stream, rpos + 1, rpos + 4))
             /\ rpos' = rpos + 4
             /\ pc' = "open_w"
             /\ events' = Ev(events, "len")
             /\ UNCHANGED << phase, failedAt, out, fault >>
    /\ UNCHANGED << variant, fs, nconn, sock, stream, cmd_buf, branch, filename,
                    remaining, total, fd, fpos, linesRead, prevLen, acked, iters,
                    shortRead >>
    /\ UNCHANGED << partial, sideVars >>

\* SEND: create the destination file, set up the loop counters, and test the
\* loop condition a first time (a declared length of 0 closes the file at once).
OpenForWrite ==
    /\ pc = "open_w"
    /\ \E ok \in BOOLEAN :
        /\ ok => filename # <<>>
        /\ IF ~ok
           THEN /\ Fail("open", filename # <<>>)
                /\ UNCHANGED << fs, remaining, total, fd, fpos, prevLen, acked, events >>
           ELSE /\ fs' = CreateTrunc(fs, filename)
                /\ prevLen' = IF filename \in DOMAIN fs THEN Len(fs[filename]) ELSE -1
                /\ acked' = MapDel(acked, filename)
                /\ fpos' = 0
                /\ remaining' = file_size
                /\ total' = 0
                /\ fd' = FdAfter("w", LoopDone(file_size))
                /\ events' = EvClose(Ev(events, "open"), "w", LoopDone(file_size))
                /\ pc' = IF LoopDone(file_size) THEN "send_ack" ELSE "recv_body"
                /\ UNCHANGED << phase, failedAt, out, fault >>
    /\ UNCHANGED << variant, nconn, sock, stream, rpos, cmd_buf, branch, filename,
                    file_size, linesRead, iters, shortRead >>
    /\ partial' = IF failedAt' = "open" THEN partial ELSE partial \ {filename}
    /\ UNCHANGED sideVars

\* SEND: one iteration of the receive loop: recv of min(remaining, BUF_SIZE)
\* bytes, write of what arrived to the file, the counters, the loop test.
RecvBodyChunk ==
    /\ pc = "recv_body"
    /\ iters' = iters + 1
    /\ LET to_read == ToRead(remaining)
       IN \E r \in RecvResults(to_read) :
          IF r <= 0
          THEN /\ fd' = FdAfter("w", TRUE)
               /\ events' = EvClose(events, "w", TRUE)
               /\ Fail("body_read", r < 0)
               /\ UNCHANGED << fs, rpos, remaining, total, fpos, shortRead >>
          ELSE \E w \in -1..r :
               LET bytes == SubSeq(stream, rpos + 1, rpos + r)
                   put == IF w > 0 THEN w ELSE 0
               IN /\ rpos' = rpos + r
                  /\ fs' = [fs EXCEPT ![filename] = Overlay(@, fpos, Prefix(bytes, put))]
                  /\ fpos' = fpos + put
                  /\ shortRead' = (shortRead \/ r < to_read)
                  /\ IF w # r
                     THEN /\ fd' = FdAfter("w", TRUE)
                          /\ events' = EvClose(EvBody(events), "w", TRUE)
                          /\ Fail("file_write", TRUE)
                          /\ UNCHANGED << remaining, total >>
                     ELSE /\ remaining' = remaining - r
                          /\ total' = total + r
                          /\ fd' = FdAfter("w", LoopDone(remaining - r))
                          /\ events' = EvClose(EvBody(events), "w", LoopDone(remaining - r))
                          /\ pc' = IF LoopDone(remaining - r) THEN "send_ack" ELSE "recv_body"
                          /\ UNCHANGED << phase, failedAt, out, fault >>
    /\ UNCHANGED << variant, nconn, sock, stream, cmd_buf, branch, filename,
                    file_size, linesRead, prevLen, acked >>
    /\ partial' = IF failedAt' = "body_read" /\ ~fault' THEN partial \cup {filename} ELSE partial
    /\ UNCHANGED sideVars

\* The body bytes the server has taken from the connection in this SEND session.
BodyReceived == SubSeq(stream, Len(cmd_buf) + 5, rpos)

\* Faulty variant (sensitivity of C22): a partly sent acknowledgment taken as sent.
AckSentPartly(s) == s > 0

\* The test on the send of the acknowledgment: bytes_sent == strlen(response_buf).
AckSent(s) == s = Len(OK_REPLY)

\* SEND: the acknowledgment "OK\n"; a send of fewer than 3 bytes ends the session.
SendAck ==
    /\ pc = "send_ack"
    /\ \E s \in SendResults(Len(OK_REPLY)) :
        /\ out' = out \o Prefix(OK_REPLY, s)
        /\ events' = IF s > 0 THEN Ev(events, "ack") ELSE events
        /\ IF ~AckSent(s)
           THEN /\ fault' = TRUE
                /\ Return("ack")
                /\ UNCHANGED acked
           ELSE /\ pc' = IF variant = "wasi" THEN "shutdown" ELSE "close"
                /\ acked' = IF cmd_buf = SEND_VERB \o <<SP>> \o filename \o <<NL>>
                            THEN MapSet(acked, filename, BodyReceived)
                            ELSE acked
                /\ UNCHANGED << phase, failedAt, fault >>
    /\ UNCHANGED << variant, fs, nconn, sock, stream, rpos, cmd_buf, branch, filename,
                    file_size, remaining, total, fd, fpos, linesRead, prevLen, iters,
                    shortRead >>
    /\ UNCHANGED << partial, sideVars >>

\* Any other verb: the error line is sent, its result ignored.  The WASI
\* server goes on to shut down and close; the native server just returns.
SendUnknown ==
    /\ pc = "unknown"
    /\ \E s \in SendResults(Len(UNKNOWN_REPLY)) :
        /\ out' = out \o Prefix(UNKNOWN_REPLY, s)
        /\ fault' = (fault \/ s < Len(UNKNOWN_REPLY))
    /\ IF variant = "wasi"
       THEN /\ pc' = "shutdown"
            /\ UNCHANGED << phase, failedAt >>
       ELSE Return("none")
    /\ UNCHANGED << variant, fs, nconn, sock, stream, rpos, cmd_buf, branch, filename,
                    file_size, remaining, total, fd, fpos, linesRead, prevLen, acked,
                    events, iters, shortRead >>
    /\ UNCHANGED << partial, sideVars >>

\* GET: the step that follows the send loop, reached on completion and on break:
\* the native server waits for the peer's acknowledgment, the WASI server shuts down.
AfterGetLoop(v) == IF v = "native" THEN "wait_ack" ELSE "shutdown"

\* GET: open(filename, O_RDONLY) and fstat; when the open fails the text reply
\* is sent and handle_client returns.
OpenForRead ==
    /\ pc = "get_open"
    /\ \E ok \in BOOLEAN :
        /\ ok => filename \in DOMAIN fs
        /\ IF ~ok
           THEN /\ Fail("notfound", filename \in DOMAIN fs)
                /\ UNCHANGED << fd, fpos, file_size, events >>
           ELSE /\ fd' = "r"
                /\ fpos' = 0
                /\ file_size' = Len(fs[filename])
                /\ pc' = "send_len"
                /\ events' = Ev(events, "open")
                /\ UNCHANGED << phase, failedAt, out, fault >>
    /\ UNCHANGED << variant, fs, nconn, sock, stream, rpos, cmd_buf, branch, filename,
                    remaining, total, linesRead, prevLen, acked, iters, shortRead >>
    /\ UNCHANGED << partial, sideVars >>

\* GET: one send of the 4 header bytes; anything but 4 bytes sent ends the
\* session.  Then the loop counters and the first test of the loop condition.
SendLength ==
    /\ pc = "send_len"
    /\ \E s \in SendResults(4) :
        /\ out' = out \o Prefix(size_bytes(file_size), s)
        /\ IF s # 4
           THEN /\ fd' = FdAfter("r", TRUE)
                /\ events' = EvClose(IF s > 0 THEN Ev(events, "hdr") ELSE events, "r", TRUE)
                /\ fault' = TRUE
                /\ Return("hdr_send")
                /\ UNCHANGED << remaining, total >>
           ELSE /\ remaining' = file_size
                /\ total' = 0
                /\ fd' = FdAfter("r", LoopDone(file_size))
                /\ events' = EvClose(Ev(events, "hdr"), "r", LoopDone(file_size))
                /\ pc' = IF LoopDone(file_size) THEN AfterGetLoop(variant) ELSE "send_body"
                /\ UNCHANGED << phase, failedAt, fault >>
    /\ UNCHANGED << variant, fs, nconn, sock, stream, rpos, cmd_buf, branch, filename,
                    file_size, fpos, linesRead, prevLen, acked, iters, shortRead >>
    /\ UNCHANGED << partial, sideVars >>

\* read(fd, buffer, n) of a regular file: -1 on error, 0 at end of file, else
\* between 1 and n of the bytes from the offset on.
ReadResults(n) ==
    {-1} \cup (IF Len(fs[filename]) - fpos <= 0 THEN {0}
               ELSE 1..Min(n, Len(fs[filename]) - fpos))

\* GET: one iteration of the send loop: read of min(remaining, BUF_SIZE) bytes
\* of the file, send of what was read, the counters, the loop test.  A failed
\* read, an end of file and a short send all break out of the loop.
SendBodyChunk ==
    /\ pc = "send_body"
    /\ iters' = iters + 1
    /\ LET to_read == IF remaining < BUF_SIZE THEN remaining ELSE BUF_SIZE
       IN \E nread \in ReadResults(to_read) :
          IF nread <= 0
          THEN /\ fd' = FdAfter("r", TRUE)
               /\ events' = EvClose(events, "r", TRUE)
               /\ pc' = AfterGetLoop(variant)
               /\ fault' = TRUE
               /\ failedAt' = "file_read"
               /\ UNCHANGED << out, fpos, remaining, total, shortRead >>
          ELSE \E s \in SendResults(nread) :
               /\ out' = out \o Prefix(SubSeq(fs[filename], fpos + 1, fpos + nread), s)
               /\ fpos' = fpos + nread
               /\ shortRead' = (shortRead \/ nread < to_read)
               /\ IF s # nread
                  THEN /\ fd' = FdAfter("r", TRUE)
                       /\ events' = EvClose(EvBody(events), "r", TRUE)
                       /\ pc' = AfterGetLoop(variant)
                       /\ fault' = TRUE
                       /\ failedAt' = "body_send"
                       /\ UNCHANGED << remaining, total >>
                  ELSE /\ remaining' = remaining - s
                       /\ total' = total + s
                       /\ fd' = FdAfter("r", LoopDone(remaining - s))
                       /\ events' = EvClose(EvBody(events), "r", LoopDone(remaining - s))
                       /\ pc' = IF LoopDone(remaining - s)
                                THEN AfterGetLoop(variant) ELSE "send_body"
                       /\ UNCHANGED << fault, failedAt >>
    /\ UNCHANGED << variant, fs, nconn, sock, phase, stream, rpos, cmd_buf, branch,
                    filename, file_size, linesRead, prevLen, acked >>
    /\ UNCHANGED << partial, sideVars >>

\* Faulty variant (sensitivity of C21): no close without the acknowledgment.
AckStepStrict(ack_buf) == IF ack_buf = OK_REPLY THEN "close" ELSE "accept"

\* The step after the recv of the acknowledgment: both arms of the test
\* ack_bytes == sizeof(ack) && memcmp(ack, "OK\n", 3) == 0 only print.
AckStep(ack_buf) == "close"

\* Faulty variant (sensitivity of C29): the recv repeated until 3 bytes arrive at once.
RecvAckUntilOk ==
    /\ pc = "wait_ack"
    /\ \E r \in RecvResults(3) :
          /\ rpos' = rpos + (IF r > 0 THEN r ELSE 0)
          /\ pc' = IF r = 3 THEN "close" ELSE "wait_ack"
    /\ UNCHANGED << variant, fs, nconn, sock, phase, stream, cmd_buf, branch, filename,
                    file_size, remaining, total, fd, fpos, out, fault, failedAt,
                    linesRead, prevLen, acked, events, iters, shortRead, partial,
                    sideVars >>

\* GET, native: one recv of up to 3 bytes for the peer's "OK\n"; whatever it
\* returns, the next step is the close.
RecvAck ==
    /\ pc = "wait_ack"
    /\ \E r \in RecvResults(3) :
          /\ rpos' = rpos + (IF r > 0 THEN r ELSE 0)
          /\ pc' = AckStep(SubSeq(stream, rpos + 1, rpos + r))
    /\ events' = Ev(events, "wait_ack")
    /\ UNCHANGED << variant, fs, nconn, sock, phase, stream, cmd_buf, branch, filename,
                    file_size, remaining, total, fd, fpos, out, fault, failedAt,
                    linesRead, prevLen, acked, iters, shortRead >>
    /\ UNCHANGED << partial, sideVars >>

\* WASI: sock_shutdown(client_fd, SHUT_WR).
Shutdown ==
    /\ pc = "shutdown"
    /\ sock' = [sock EXCEPT ![nconn] = "shutwr"]
    /\ pc' = "close"
    /\ events' = Ev(events, "shutdown")
    /\ UNCHANGED << variant, fs, nconn, phase, stream, rpos, cmd_buf, branch, filename,
                    file_size, remaining, total, fd, fpos, out, fault, failedAt,
                    linesRead, prevLen, acked, iters, shortRead >>
    /\ UNCHANGED << partial, sideVars >>

\* Faulty variant (sensitivity of C9): a keep-alive loop back to the command reader
\* in place of the close.
KeepAlive ==
    /\ pc = "close"
    /\ pc' = "read_cmd"
    /\ cmd_buf' = <<>>
    /\ UNCHANGED << variant, fs, nconn, sock, phase, stream, rpos, branch, filename,
                    file_size, remaining, total, fd, fpos, out, fault, failedAt,
                    linesRead, prevLen, acked, events, iters, shortRead >>
    /\ UNCHANGED << partial, sideVars >>

\* close(client_fd) / sock_close(client_fd), the last statement before the return.
CloseSock ==
    /\ pc = "close"
    /\ sock' = [sock EXCEPT ![nconn] = "closed"]
    /\ pc' = "accept"
    /\ phase' = [phase EXCEPT ![nconn] = "returned"]
    /\ UNCHANGED << variant, fs, nconn, stream, rpos, cmd_buf, branch, filename,
                    file_size, remaining, total, fd, fpos, out, fault, failedAt,
                    linesRead, prevLen, acked, events, iters, shortRead >>
    /\ UNCHANGED << partial, sideVars >>

Next ==
    \/ Accept
    \/ RecvCmdByte
    \/ RecvLength
    \/ OpenForWrite
    \/ RecvBodyChunk
    \/ SendAck
    \/ OpenForRead
    \/ SendLength
    \/ SendBodyChunk
    \/ RecvAck
    \/ SendUnknown
    \/ Shutdown
    \/ CloseSock

Spec == Init /\ [][Next]_vars

\* ------------------------------------------- the command line, at its limits
\* One connection on an empty directory, from the first byte of the command to
\* the first step of its branch, for lines and filenames around their limits.
Fill(n, c) == [i \in 1..n |-> c]

\* Lines of MAX_CMD_SIZE - 1 bytes and more without a newline; a line whose
\* newline is byte MAX_CMD_SIZE - 1; spaces only; a SEND whose filename runs up
\* to the limit of the line, followed by a length.
LongLines ==
    {Fill((MAX_CMD_SIZE - 1) + k, 120) : k \in 0..MaxExtra}
    \cup {Fill(MAX_CMD_SIZE - 2, 120) \o <<NL>> \o Fill(k, 120) : k \in 0..MaxExtra}
    \cup {Fill(MAX_CMD_SIZE - 1, SP) \o <<NL>>}
    \cup {SEND_VERB \o <<SP>> \o Fill((MAX_CMD_SIZE - 1) - (Len(SEND_VERB) + 1), 120)
            \o client_size_buf(0)}

\* A path of n characters, "./././a": short components, the file a.
PathOf(n) == [i \in 1..n |-> IF i = n THEN 97 ELSE IF i % 2 = 1 THEN 46 ELSE 47]

\* SEND and GET of a filename longer than MAX_FILENAME.
LongNames ==
    {SEND_VERB \o <<SP>> \o PathOf(MAX_FILENAME + k) \o <<NL>> \o client_size_buf(0) :
        k \in 1..MaxExtra}
    \cup {GET_VERB \o <<SP>> \o PathOf(MAX_FILENAME + k) \o <<NL>> : k \in 1..MaxExtra}

\* "\n", " \n", "\r\n"; "SEND a b\n" and "GET a b\n"; "SEND a\n", "GET a\n",
\* "GET a \n", "PUT a\n", and lines cut short.
ShortLines ==
    { <<NL>>, <<SP, NL>>, <<CR, NL>>, <<SP>>, <<>>,
      SEND_VERB \o <<SP, 97, SP, 98, NL>> \o client_size_buf(0),
      GET_VERB \o <<SP, 97, SP, 98, NL>>,
      SendLine \o client_size_buf(0), SendLine \o client_size_buf(1) \o <<1>>,
      GetLine, GetLineSp, <<80, 85, 84, 32, 97, 10>>, <<71, 69>> }

CmdStreams == LongLines \cup LongNames \cup ShortLines

CmdInit ==
    /\ variant \in Variants
    /\ fs = EmptyMap
    /\ nconn = 1
    /\ pc = "read_cmd"
    /\ sock = [c \in Conns |-> IF c = 1 THEN "open" ELSE "none"]
    /\ phase = [c \in Conns |-> IF c = 1 THEN "active" ELSE "none"]
    /\ stream \in CmdStreams
    /\ rpos = 0
    /\ cmd_buf = <<>>
    /\ branch = "none"
    /\ filename = <<>>
    /\ file_size = 0
    /\ remaining = 0
    /\ total = 0
    /\ fd = "none"
    /\ fpos = 0
    /\ out = <<>>
    /\ fault = FALSE
    /\ failedAt = "none"
    /\ linesRead = 0
    /\ prevLen = -1
    /\ acked = EmptyMap
    /\ events = <<>>
    /\ iters = 0
    /\ shortRead = FALSE
    /\ partial = {}
    /\ prev = NoPrev
    /\ st_size = <<0, 0, 0>>
    /\ KvOff
    /\ silent = FALSE
    /\ ClientOff
    /\ CodecOff

CmdNext == RecvCmdByte \/ RecvLength \/ OpenForWrite \/ OpenForRead \/ SendUnknown

SpecCmd == CmdInit /\ [][CmdNext]_vars

\* ------------------------------------------- the receive loop, counted
\* The SEND branch from the open on, for declared lengths around the multiples
\* of BUF_SIZE.  The body bytes themselves are not represented: the loop is
\* followed on its counters only.
CopySizes == {s \in {(k * BUF_SIZE) + d : k \in 0..MaxChunks, d \in {-1, 0, 1}} : s >= 0}

\* What recv may return for a request of n bytes: 0 or less (taken as 0), one
\* byte, all but one, or all n.
CopyReads(n) == {r \in {0, 1, n - 1, n} : r >= 0}

CopyInit ==
    /\ variant \in Variants
    /\ fs = EmptyMap
    /\ nconn = 1
    /\ pc = "open_w"
    /\ sock = [c \in Conns |-> IF c = 1 THEN "open" ELSE "none"]
    /\ phase = [c \in Conns |-> IF c = 1 THEN "active" ELSE "none"]
    /\ \E S \in CopySizes :
          /\ stream = SendLine \o client_size_buf(S)
          /\ file_size = S
    /\ rpos = Len(stream)
    /\ cmd_buf = SendLine
    /\ branch = "send"
    /\ filename = <<97>>
    /\ remaining = 0
    /\ total = 0
    /\ fd = "none"
    /\ fpos = 0
    /\ out = <<>>
    /\ fault = FALSE
    /\ failedAt = "none"
    /\ linesRead = 1
    /\ prevLen = -1
    /\ acked = EmptyMap
    /\ events = <<"len">>
    /\ iters = 0
    /\ shortRead = FALSE
    /\ partial = {}
    /\ prev = NoPrev
    /\ st_size = <<0, 0, 0>>
    /\ KvOff
    /\ silent = FALSE
    /\ ClientOff
    /\ CodecOff

\* One iteration of the receive loop on its counters: recv of to_read bytes,
\* write of what arrived, remaining and total_written, the loop test.
CopyChunk ==
    /\ pc = "recv_body"
    /\ iters' = iters + 1
    /\ LET to_read == ToRead(remaining)
       IN \E r \in CopyReads(to_read) :
          IF r <= 0
          THEN /\ fd' = FdAfter("w", TRUE)
               /\ events' = EvClose(events, "w", TRUE)
               /\ Fail("body_read", FALSE)
               /\ UNCHANGED << remaining, total, fpos, shortRead >>
          ELSE \E w \in {r - 1, r} :
               /\ fpos' = fpos + w
               /\ shortRead' = (shortRead \/ r < to_read)
               /\ IF w # r
                  THEN /\ fd' = FdAfter("w", TRUE)
                       /\ events' = EvClose(EvBody(events), "w", TRUE)
                       /\ Fail("file_write", TRUE)
                       /\ UNCHANGED << remaining, total >>
                  ELSE /\ remaining' = remaining - r
                       /\ total' = total + r
                       /\ fd' = FdAfter("w", LoopDone(remaining - r))
                       /\ events' = EvClose(EvBody(events), "w", LoopDone(remaining - r))
                       /\ pc' = IF LoopDone(remaining - r) THEN "send_ack" ELSE "recv_body"
                       /\ UNCHANGED << phase, failedAt, out, fault >>
    /\ UNCHANGED << variant, fs, nconn, sock, stream, rpos, cmd_buf, branch, filename,
                    file_size, linesRead, prevLen, acked >>
    /\ partial' = IF failedAt' = "body_read" /\ ~fault' THEN partial \cup {filename} ELSE partial
    /\ UNCHANGED sideVars

CopyNext == OpenForWrite \/ CopyChunk

SpecCopy == CopyInit /\ [][CopyNext]_vars

\* ------------------------------------------------------------------ claims
\* The 4-byte big-endian encoding of a length, as the wire protocol defines it.
BigEndian4(n) ==
    << (n \div 16777216) % 256, (n \div 65536) % 256, (n \div 256) % 256, n % 256 >>

SessionOver == nconn >= 1 /\ pc = "accept"

\* C1: round trip. Once a session "SEND <name>\n" has been acknowledged with
\* "OK\n" and no later SEND has opened that name, a session "GET <name>\n" in
\* which no I/O call fails ends with the server having written the 4-byte
\* big-endian length of the acknowledged body followed by exactly that body.
C1_RoundTrip ==
    \A n \in DOMAIN acked :
        (SessionOver /\ ~fault /\ cmd_buf = GET_VERB \o <<SP>> \o n \o <<NL>>)
            => out = BigEndian4(Len(acked[n])) \o acked[n]

\* C2: in a SEND session a byte of the acknowledgment is on the connection only
\* if the bytes written to the destination file number exactly the declared
\* length; a session whose body read hit a disconnect or an error has written
\* nothing.
C2_AckOnlyAfterFullBody ==
    branch = "send" =>
        /\ out # <<>> => (total = file_size /\ fpos = file_size
                          /\ Len(fs[filename]) = file_size)
        /\ failedAt = "body_read" => out = <<>>

C2_Witness ==
    /\ branch = "send"
    /\ out = OK_REPLY
    /\ file_size = 2
    /\ fpos = 2

\* C3: after a SEND session in which the server has replied "OK\n" the
\* destination file holds exactly the L body bytes the client sent after the
\* header, in order, whatever it held before.
C3_FileIsBody ==
    (branch = "send" /\ out = OK_REPLY) =>
        /\ filename \in DOMAIN fs
        /\ Len(fs[filename]) = file_size
        /\ fs[filename] = SubSeq(stream, Len(cmd_buf) + 5, Len(cmd_buf) + 4 + file_size)

C3_Witness ==
    /\ branch = "send"
    /\ out = OK_REPLY
    /\ file_size >= 1
    /\ prevLen > file_size

\* What a complete reply to a GET of the opened file consists of.
C4_Expected == BigEndian4(Len(fs[filename])) \o fs[filename]

C5_NotFoundSentinel ==
    (SessionOver /\ branch = "get" /\ failedAt = "notfound" /\ ~fault) =>
        /\ out = <<0, 0, 0, 0>>
        /\ sock[nconn] = "closed"

\* C6: a command line whose verb is neither SEND nor GET, with no I/O failure,
\* ends with exactly "ERROR: Unknown command\n" written and the connection
\* closed before the listener is back at accept.
C6_UnknownReplyAndClose ==
    (SessionOver /\ branch = "unknown" /\ ~fault) =>
        /\ out = UNKNOWN_REPLY
        /\ sock[nconn] = "closed"

\* C7: whenever the listener is at accept, every connection accepted so far has
\* been closed by the server.
C7_AllClosedAtAccept ==
    pc = "accept" => \A c \in 1..nconn : sock[c] = "closed"

\* C8: a SEND session that gives up because the length header did not arrive,
\* the destination file could not be created, a body read returned 0 or an
\* error, or a file write failed, has written no byte on the connection.
C8_FailedSendIsSilent ==
    (branch = "send" /\ failedAt \in {"len", "open", "body_read", "file_write"})
        => out = <<>>

C8_Witness ==
    /\ branch = "send"
    /\ failedAt = "body_read"
    /\ total >= 1
    /\ total < file_size
    /\ pc = "accept"

\* C9: at most one command line is read from a connection: once a line has been
\* read the server is never again in the command reader on that connection,
\* whatever bytes the client has sent after its request.
C9_OneCommandPerConnection ==
    /\ linesRead <= 1
    /\ linesRead = 1 => pc # "read_cmd"

C9_Witness ==
    /\ SessionOver
    /\ linesRead = 1
    /\ sock[nconn] = "closed"
    /\ rpos < Len(stream)

\* The sessions between the call and the return of handle_client.
ActiveSessions == {c \in Conns : phase[c] = "active"}

\* C10: at most one session is in progress; the listener is at accept only when
\* none is; and a file is open only inside the one session in progress, so the
\* file operations of two sessions never interleave.
C10_OneSessionAtATime ==
    /\ Cardinality(ActiveSessions) <= 1
    /\ pc = "accept" => ActiveSessions = {}
    /\ pc # "accept" => ActiveSessions = {nconn}
    /\ fd # "none" => ActiveSessions = {nconn}

C10_Witness ==
    /\ nconn = 2
    /\ phase[1] = "returned"
    /\ phase[2] = "active"
    /\ fd = "w"
    /\ fpos >= 1

IsPrefix(s, t) == Len(s) <= Len(t) /\ s = SubSeq(t, 1, Len(s))

\* C11: in a SEND session the steps come in the order length received, file
\* opened, body read and written (absent for a length of 0), file closed,
\* "OK\n" written; the file is not open before the length is known nor while
\* or after the acknowledgment is written.  In a GET session the file is
\* closed before the server waits for the peer's acknowledgment (native) or
\* shuts the connection down (WASI).
C11_SessionOrder ==
    /\ branch = "send" =>
        /\ \/ IsPrefix(events, <<"len", "open", "body", "close", "ack", "shutdown">>)
           \/ IsPrefix(events, <<"len", "open", "close", "ack", "shutdown">>)
        /\ fd # "none" => (pc = "recv_body" /\ rpos >= Len(cmd_buf) + 4)
        /\ out # <<>> => fd = "none"
    /\ branch = "get" =>
        /\ \E last \in {"wait_ack", "shutdown"} :
              \/ IsPrefix(events, <<"open", "hdr", "body", "close", last>>)
              \/ IsPrefix(events, <<"open", "hdr", "close", last>>)
              \/ IsPrefix(events, <<"open", "close">>)
        /\ pc \in {"wait_ack", "shutdown", "close", "accept"} => fd = "none"

C11_Witness ==
    /\ branch = "send"
    /\ variant = "wasi"
    /\ events = <<"len", "open", "body", "close", "ack", "shutdown">>
    /\ iters = 2

\* C12: the 4 length bytes of a SEND may arrive in pieces; the server collects
\* them and gives up at the length step only on a receive error or when the
\* peer has gone before 4 bytes came in.
C12_LengthReadRetried ==
    (branch = "send" /\ failedAt = "len" /\ ~fault) => Len(stream) < Len(cmd_buf) + 4

\* C13: a send of the GET length header that takes 1 to 3 of the 4 bytes is
\* followed by the rest of the header; the session does not end at the header
\* step with part of the header on the connection.
C13_HeaderWriteRetried ==
    (branch = "get" /\ failedAt = "hdr_send") => Len(out) \notin 1..3

\* C14: a write of a chunk that takes only part of it is followed by the rest
\* of the chunk: the session ends at a file write or at a body send only when
\* that write took nothing of its chunk.
C14_ShortWriteRetried ==
    /\ (branch = "send" /\ failedAt = "file_write") => fpos = total
    /\ (branch = "get" /\ failedAt = "body_send") => Len(out) = 4 + total

\* C15: a GET whose file read returns 0 or an error before the declared length
\* is sent ends at once; the server does not go on to wait for the peer's
\* acknowledgment.
C15_ShortReadAborts ==
    (branch = "get" /\ failedAt = "file_read") =>
        (pc # "wait_ack" /\ \A i \in 1..Len(events) : events[i] # "wait_ack")

\* ceil(S / BUF_SIZE)
CeilChunks(S) == (S + BUF_SIZE - 1) \div BUF_SIZE

\* C16 as stated: for a declared length S the receive loop ends after exactly
\* ceil(S / 4096) iterations with exactly S bytes moved, however the source
\* delivers the bytes.
C16_ExactChunks ==
    (pc = "send_ack" /\ fd = "none") =>
        (total = file_size /\ iters = CeilChunks(file_size))

\* C16, amended: the loop ends with exactly S bytes moved (0 iterations for
\* S = 0); it takes exactly ceil(S / 4096) iterations when every read returns
\* the requested amount, and otherwise at least that many and at most S.
C16_ChunksWithShortReads ==
    (pc = "send_ack" /\ fd = "none") =>
        /\ total = file_size
        /\ remaining = 0
        /\ fpos = file_size
        /\ iters >= CeilChunks(file_size)
        /\ iters <= file_size
        /\ ~shortRead => iters = CeilChunks(file_size)
        /\ file_size = 0 => (iters = 0 /\ filename \in DOMAIN fs /\ fs[filename] = <<>>)

C16_Witness ==
    /\ pc = "send_ack"
    /\ file_size = BUF_SIZE + 1
    /\ total = file_size
    /\ iters = 3
    /\ shortRead

\* C17: the command is read one byte at a time up to the first newline or
\* up to MAX_CMD_SIZE - 1 = 1023 bytes: the line never holds more than 1023
\* bytes (the terminator goes to index 1023 at most), holds no newline before
\* its last byte, is exactly what the peer sent first, nothing after it has
\* been consumed when the branch starts, and 1023 bytes without a newline are
\* parsed as the line.
C17_CommandLineBounded ==
    /\ Len(cmd_buf) <= MAX_CMD_SIZE - 1
    /\ cmd_buf = Prefix(stream, Len(cmd_buf))
    /\ \A i \in 1..(Len(cmd_buf) - 1) : cmd_buf[i] # NL
    /\ linesRead <= 1
    /\ pc = "read_cmd" => (linesRead = 0 /\ rpos = Len(cmd_buf))
    /\ linesRead = 1 =>
          (cmd_buf[Len(cmd_buf)] = NL \/ Len(cmd_buf) = MAX_CMD_SIZE - 1)
    /\ (linesRead = 1 /\ pc \in {"recv_len", "get_open", "unknown"}) =>
          rpos = Len(cmd_buf)
    /\ ( /\ linesRead = 1
         /\ Len(cmd_buf) = MAX_CMD_SIZE - 1
         /\ Prefix(cmd_buf, Len(SEND_VERB) + 1) = SEND_VERB \o <<SP>>
         /\ \A i \in (Len(SEND_VERB) + 2)..Len(cmd_buf) :
               cmd_buf[i] \notin {SP, NL, CR, TAB} ) =>
          (branch = "send" /\ filename = Suffix(cmd_buf, Len(SEND_VERB) + 1))

C17_Witness ==
    /\ linesRead = 1
    /\ Len(cmd_buf) = MAX_CMD_SIZE - 1
    /\ \A i \in 1..Len(cmd_buf) : cmd_buf[i] # NL
    /\ branch = "send"
    /\ pc = "open_w"
    /\ rpos = Len(cmd_buf) + 4

IsBlank(s) == \A i \in 1..Len(s) : s[i] \in {SP, NL, CR, TAB}

\* C18: when the line holds no verb (it is empty or holds only whitespace), or
\* the peer is gone before the line is complete, the server writes nothing on
\* the connection.
C18_NoVerbIsSilent ==
    ((linesRead = 1 /\ IsBlank(cmd_buf)) \/ failedAt = "cmd") => out = <<>>

\* The remainder of a line after its first run of whitespace, with leading
\* and trailing whitespace removed.
Strip(s) ==
    LET kept == {i \in 1..Len(s) : s[i] \notin {SP, NL, CR, TAB}}
    IN  IF kept = {} THEN <<>> ELSE SubSeq(s, MinOf(kept), MaxOf(kept))

Remainder(line) ==
    LET ws == {i \in 1..Len(line) : line[i] \in {SP, NL, CR, TAB}}
    IN  IF ws = {} THEN <<>> ELSE Strip(Suffix(line, MinOf(ws)))

\* C19: in a SEND and in a GET the filename is the whole remainder of the line
\* after the first run of whitespace, trimmed at both ends.
C19_FilenameIsRemainder ==
    (branch \in {"send", "get"} /\ failedAt # "nofile") =>
        filename = Remainder(cmd_buf)

\* C20: the filename of a command is at most MAX_FILENAME = 256 characters
\* long, and no file with a longer name is opened or created.
C20_FilenameBounded ==
    /\ branch \in {"send", "get"} => Len(filename) <= MAX_FILENAME
    /\ \A n \in DOMAIN fs : Len(n) <= MAX_FILENAME

BodyConsumed == rpos - (Len(cmd_buf) + 4)

\* C26: in the SEND receive loop remaining + total_written = file_size and
\* 0 <= remaining <= file_size at the head of every iteration, an iteration
\* takes at most min(remaining, BUF_SIZE) bytes from the connection, and the
\* server never consumes more than the declared number of body bytes, even
\* when the peer has sent more.
C26_LoopInvariant ==
    /\ []((branch = "send" /\ pc = "recv_body") =>
             /\ remaining + total = file_size
             /\ remaining > 0
             /\ remaining <= file_size
             /\ BodyConsumed = total)
    /\ []((branch = "send" /\ pc \notin {"read_cmd", "recv_len"} /\ failedAt # "len") =>
             (BodyConsumed >= 0 /\ BodyConsumed <= file_size))
    /\ [][(branch = "send" /\ pc = "recv_body") =>
             /\ rpos' - rpos <= Min(remaining, BUF_SIZE)
             /\ remaining' >= 0
             /\ remaining' <= remaining
             /\ (failedAt' = "none" => remaining' + total' = file_size)]_vars

C26_Witness ==
    /\ branch = "send"
    /\ pc = "send_ack"
    /\ file_size = 2
    /\ total = 2
    /\ iters = 2
    /\ BodyConsumed = 2
    /\ Len(stream) = rpos + 1

\* C27: the files change only in a SEND whose length has been received: a
\* session that ends before that (no filename, peer gone after the line, length
\* not obtained) leaves every file as it was, neither truncated nor created.
C27_NoLengthNoChange ==
    /\ [][fs' # fs => (branch = "send" /\ failedAt = "none" /\ events # <<>>
                       /\ events[1] = "len" /\ pc \in {"open_w", "recv_body"})]_vars
    /\ []((branch = "send" /\ failedAt \in {"nofile", "len"}) => events = <<>>)

C27_Witness ==
    /\ branch = "send"
    /\ failedAt = "len"
    /\ pc = "accept"
    /\ rpos > Len(cmd_buf)
    /\ filename \in DOMAIN fs
    /\ Len(fs[filename]) = 2


\* C28: after a SEND whose peer disconnected inside the body, a later GET of
\* the same name is not answered with a well-formed success frame, that is a
\* header carrying the length of the partial file followed by its bytes.
C28_PartialNotServed ==
    (SessionOver /\ branch = "get" /\ ~fault /\ failedAt = "none"
        /\ filename \in partial /\ filename \in DOMAIN fs)
    => out # BigEndian4(Len(fs[filename])) \o fs[filename]


\* ------------------------------------------------------------ length codec
\* The codec on its own: a value, one of the two encoders, one of the two decoders.
CodecHalves == {0, 1, 255, 256, 32767, 32768, 65535}

Encoders == {"send_image", "server_get"}

Decoders == {"ntohl", "get_image"}

Encode(by, w) == IF by = "send_image" THEN send_image_size_buf(w) ELSE size_bytes_u32(w)

Decode(by, b) == IF by = "ntohl" THEN ntohl_u32(b) ELSE get_image_img_size(b)

\* The server before its first session, with the files given on disk.
ServerIdle(files) ==
    /\ fs = files
    /\ nconn = 0
    /\ pc = "accept"
    /\ sock = [c \in Conns |-> "none"]
    /\ phase = [c \in Conns |-> "none"]
    /\ stream = <<>>
    /\ rpos = 0
    /\ cmd_buf = <<>>
    /\ branch = "none"
    /\ filename = <<>>
    /\ file_size = 0
    /\ remaining = 0
    /\ total = 0
    /\ fd = "none"
    /\ fpos = 0
    /\ out = <<>>
    /\ fault = FALSE
    /\ failedAt = "none"
    /\ linesRead = 0
    /\ prevLen = -1
    /\ acked = EmptyMap
    /\ events = <<>>
    /\ iters = 0
    /\ shortRead = FALSE
    /\ partial = {}

serverVars == << variant, fs, nconn, pc, sock, phase, stream, rpos, cmd_buf, branch,
                 filename, file_size, remaining, total, fd, fpos, out, fault, failedAt,
                 linesRead, prevLen, acked, events, iters, shortRead, partial >>

CodecInit ==
    /\ variant = "wasi"
    /\ ServerIdle(EmptyMap)
    /\ prev = NoPrev
    /\ st_size = <<0, 0, 0>>
    /\ KvOff
    /\ silent = FALSE
    /\ ClientOff
    /\ codec_n \in CodecHalves \X CodecHalves
    /\ codec_by = <<>>
    /\ codec_bytes = <<>>
    /\ codec_out = <<>>

CodecEncode ==
    /\ codec_by = <<>>
    /\ \E e \in Encoders :
          /\ codec_by' = << e >>
          /\ codec_bytes' = Encode(e, codec_n)
    /\ UNCHANGED << serverVars, prev, silent, clientVars, codec_n, codec_out, st_size, kvVars >>

CodecDecode ==
    /\ Len(codec_by) = 1
    /\ \E d \in Decoders :
          /\ codec_by' = Append(codec_by, d)
          /\ codec_out' = Decode(d, codec_bytes)
    /\ UNCHANGED << serverVars, prev, silent, clientVars, codec_n, codec_bytes, st_size, kvVars >>

CodecNext == CodecEncode \/ CodecDecode

SpecCodec == CodecInit /\ [][CodecNext]_vars

\* C24: the length codec is a big-endian round trip over the unsigned 32-bit
\* values: either encoder produces the bytes (n>>24)&0xFF, (n>>16)&0xFF,
\* (n>>8)&0xFF, n&0xFF, and either decoder gives n back from them.
C24_CodecRoundTrip ==
    /\ codec_by # <<>> =>
          codec_bytes = << codec_n[1] \div 256, codec_n[1] % 256,
                           codec_n[2] \div 256, codec_n[2] % 256 >>
    /\ Len(codec_by) = 2 => codec_out = codec_n

C24_Witness ==
    /\ codec_by = << "server_get", "get_image" >>
    /\ codec_n = << 65535, 65535 >>
    /\ codec_bytes = << 255, 255, 255, 255 >>
    /\ codec_out = codec_n


\* ------------------------------------------------- two GETs side by side
\* A server holding the empty file a and no file b; two sessions, each a GET
\* of one of the two names, the second recorded next to the first.
NameA == <<97>>

NameB == <<98>>

PairStreams ==
    { <<71, 69, 84, 32>> \o n \o e : n \in {NameA, NameB}, e \in {<<NL>>, <<SP, NL>>} }

PairInit ==
    /\ variant \in Variants
    /\ ServerIdle(MapSet(EmptyMap, NameA, <<>>))
    /\ prev = NoPrev
    /\ st_size = <<0, 0, 0>>
    /\ KvOff
    /\ silent = FALSE
    /\ ClientOff
    /\ CodecOff

PairAccept ==
    /\ AcceptFrom(PairStreams)
    /\ prev' = [branch |-> branch, why |-> failedAt, fault |-> fault, out |-> out]

PairNext ==
    \/ PairAccept
    \/ RecvCmdByte
    \/ OpenForRead
    \/ SendLength
    \/ RecvAck
    \/ Shutdown
    \/ CloseSock

SpecPair == PairInit /\ [][PairNext]_vars

\* C23: a GET of a missing file and a GET of an existing file of length 0,
\* side by side, write the same bytes on their connections: an all-zero
\* 4-byte header and nothing else.
C23_MissingLikeEmpty ==
    (/\ nconn = 2 /\ pc = "accept"
     /\ branch = "get" /\ prev.branch = "get"
     /\ ~fault /\ ~prev.fault
     /\ {failedAt, prev.why} = {"none", "notfound"})
    => (out = prev.out /\ out = <<0, 0, 0, 0>>)


\* ------------------------------------------------------ client and server
\* The client program over one connection to the server: main has connected,
\* the server has accepted and sits in its command loop.
Connected(files) ==
    /\ fs = files
    /\ nconn = 1
    /\ pc = "read_cmd"
    /\ sock = [c \in Conns |-> IF c = 1 THEN "open" ELSE "none"]
    /\ phase = [c \in Conns |-> IF c = 1 THEN "active" ELSE "none"]
    /\ rpos = 0
    /\ cmd_buf = <<>>
    /\ branch = "none"
    /\ filename = <<>>
    /\ file_size = 0
    /\ remaining = 0
    /\ total = 0
    /\ fd = "none"
    /\ fpos = 0
    /\ out = <<>>
    /\ fault = FALSE
    /\ failedAt = "none"
    /\ linesRead = 0
    /\ prevLen = -1
    /\ acked = EmptyMap
    /\ events = <<>>
    /\ iters = 0
    /\ shortRead = FALSE
    /\ partial = {}

\* What the server may hold under the name a: nothing, or a 2-byte file.
ServerFiles == {EmptyMap, MapSet(EmptyMap, NameA, <<1, 2>>)}

\* The local files send_image may be given.
LocalFiles == SeqsUpTo(BodyBytes, MaxLen)

ClientInit ==
    /\ variant \in Variants
    /\ \E files \in ServerFiles : Connected(files)
    /\ stream = <<>>
    /\ silent = TRUE
    /\ prev = NoPrev
    /\ st_size = <<0, 0, 0>>
    /\ KvOff
    /\ CodecOff
    /\ c_pc \in {"send_image", "get_image"}
    /\ c_rpos = 0
    /\ got = 0
    /\ size_buf = <<>>
    /\ img_size = -1
    /\ left = 0
    /\ c_buf = <<>>
    /\ img_fd = "none"
    /\ img_data = <<>>
    /\ c_last = 1
    /\ c_fault = FALSE

\* The bytes the server has written that the client has not yet received.
ClientAvail == Len(out) - c_rpos

\* sock_recv(sockfd, buf, n) of the client: an error, 0 at the end of the
\* server's bytes once the server has shut down or closed its side, else
\* between 1 and n of the bytes in flight.  With nothing in flight and the
\* server's descriptor open the call does not return.
ClientRecvResults(n) ==
    IF ClientAvail = 0 /\ sock[nconn] = "open" THEN {}
    ELSE {-1} \cup (IF ClientAvail = 0 THEN {0} ELSE 1..Min(n, ClientAvail))

ClientBytes(n) == SubSeq(out, c_rpos + 1, c_rpos + n)

\* send_image up to its wait: the local file is read for its size, then SEND
\* name, the size and the content are sent (the results of sock_send are not
\* looked at).  A failed first open sends nothing, a failed second open
\* sends no content, and both return.
ClientSendImage ==
    /\ c_pc = "send_image"
    /\ \E body \in LocalFiles, opened \in 0..2 :
          /\ stream' = CASE opened = 0 -> <<>>
                         [] opened = 1 -> SendLine \o client_size_buf(Len(body))
                         [] opened = 2 -> SendLine \o client_size_buf(Len(body)) \o body
          /\ c_pc' = IF opened = 2 THEN "wait_ok" ELSE "shutdown"
    /\ got' = 0
    /\ UNCHANGED << variant, fs, nconn, pc, sock, phase, rpos, cmd_buf, branch,
                    filename, file_size, remaining, total, fd, fpos, out, fault, failedAt,
                    linesRead, prevLen, acked, events, iters, shortRead, partial, prev, silent, codecVars, c_rpos, size_buf,
                    img_size, left, c_buf, img_fd, img_data, c_last >>
    /\ UNCHANGED << st_size, kvVars >>
    /\ UNCHANGED c_fault

\* Faulty variant (sensitivity of C25): the wait ends with the first byte.
ClientAckDoneEarly(g) == g >= 1

\* The test of send_image's wait loop, while (got < 3), negated.
ClientAckDone(g) == g >= 3

\* send_image: one sock_recv of the wait for "OK\n", asking for 3 - got bytes.
ClientRecvOk ==
    /\ c_pc = "wait_ok"
    /\ \E n \in ClientRecvResults(3 - got) :
          /\ c_last' = n
          /\ IF n <= 0
             THEN /\ c_pc' = "shutdown"
                  /\ UNCHANGED << got, c_rpos >>
             ELSE /\ got' = got + n
                  /\ c_rpos' = c_rpos + n
                  /\ c_pc' = IF ClientAckDone(got + n) THEN "shutdown" ELSE "wait_ok"
    /\ UNCHANGED << serverVars, prev, silent, codecVars, size_buf, img_size, left,
                    c_buf, img_fd, img_data >>
    /\ UNCHANGED << st_size, kvVars >>
    /\ c_fault' = (c_fault \/ c_last' < 0)

\* get_image up to its first receive: GET name is sent.
ClientGetImage ==
    /\ c_pc = "get_image"
    /\ stream' = GetLine
    /\ c_pc' = "hdr"
    /\ got' = 0
    /\ UNCHANGED << variant, fs, nconn, pc, sock, phase, rpos, cmd_buf, branch,
                    filename, file_size, remaining, total, fd, fpos, out, fault, failedAt,
                    linesRead, prevLen, acked, events, iters, shortRead, partial, prev, silent, codecVars, c_rpos, size_buf,
                    img_size, left, c_buf, img_fd, img_data, c_last >>
    /\ UNCHANGED << st_size, kvVars >>
    /\ UNCHANGED c_fault

\* get_image: one sock_recv of the header loop; with the fourth byte the
\* length is decoded, a length of 0 is reported as not found, and for any
\* other length the local file is created.
ClientRecvSize ==
    /\ c_pc = "hdr"
    /\ \E n \in ClientRecvResults(4 - got) :
          /\ c_last' = n
          /\ IF n <= 0
             THEN /\ c_pc' = "shutdown"
                  /\ UNCHANGED << got, c_rpos, size_buf, img_size, left, img_fd, img_data >>
             ELSE /\ c_rpos' = c_rpos + n
                  /\ size_buf' = size_buf \o ClientBytes(n)
                  /\ IF got + n < 4
                     THEN /\ got' = got + n
                          /\ c_pc' = "hdr"
                          /\ UNCHANGED << img_size, left, img_fd, img_data >>
                     ELSE /\ img_size' = U32ToInt(get_image_img_size(size_buf'))
                          /\ IF img_size' = 0
                             THEN /\ c_pc' = "shutdown"
                                  /\ UNCHANGED << got, left, img_fd, img_data >>
                             ELSE \E created \in BOOLEAN :
                                  IF ~created
                                  THEN /\ c_pc' = "shutdown"
                                       /\ UNCHANGED << got, left, img_fd, img_data >>
                                  ELSE /\ img_fd' = "open"
                                       /\ img_data' = <<>>
                                       /\ left' = img_size'
                                       /\ got' = 0
                                       /\ c_pc' = "body"
    /\ UNCHANGED << serverVars, prev, silent, codecVars, c_buf >>
    /\ UNCHANGED << st_size, kvVars >>
    /\ c_fault' = (c_fault \/ c_last' < 0
                      \/ (c_last' > 0 /\ img_size' > 0 /\ c_pc' = "shutdown"))

\* to_read of get_image's loop: left > BUF_SIZE ? BUF_SIZE : left.
ClientToRead(l) == IF l > BUF_SIZE THEN BUF_SIZE ELSE l

\* get_image: one sock_recv of the body loop; when the chunk is full it is
\* written to the local file, and the file is closed once nothing is left.
ClientRecvBody ==
    /\ c_pc = "body"
    /\ LET to_read == ClientToRead(left)
       IN \E n \in ClientRecvResults(to_read - got) :
          /\ c_last' = n
          /\ IF n <= 0
             THEN /\ c_pc' = "shutdown"
                  /\ UNCHANGED << got, c_rpos, c_buf, left, img_fd, img_data >>
             ELSE /\ c_rpos' = c_rpos + n
                  /\ IF got + n < to_read
                     THEN /\ got' = got + n
                          /\ c_buf' = c_buf \o ClientBytes(n)
                          /\ c_pc' = "body"
                          /\ UNCHANGED << left, img_fd, img_data >>
                     ELSE \E w \in {got + n - 1, got + n} :
                          /\ img_data' = img_data \o Prefix(c_buf \o ClientBytes(n), w)
                          /\ c_buf' = <<>>
                          /\ got' = 0
                          /\ IF w # got + n
                             THEN /\ c_pc' = "shutdown"
                                  /\ UNCHANGED << left, img_fd >>
                             ELSE /\ left' = left - (got + n)
                                  /\ img_fd' = IF left' = 0 THEN "closed" ELSE img_fd
                                  /\ c_pc' = IF left' = 0 THEN "shutdown" ELSE "body"
    /\ UNCHANGED << serverVars, prev, silent, codecVars, size_buf, img_size >>
    /\ UNCHANGED << st_size, kvVars >>
    /\ c_fault' = (c_fault \/ c_last' < 0
                      \/ (c_last' > 0 /\ left' > 0 /\ c_pc' = "shutdown"))

\* Faulty variant (sensitivity of C31): main ends with the socket left as it is.
ClientLeave ==
    /\ c_pc = "shutdown"
    /\ c_pc' = "done"
    /\ UNCHANGED << serverVars, prev, silent, codecVars, c_rpos, got, size_buf, img_size,
                    left, c_buf, img_fd, img_data, c_last, c_fault, st_size, kvVars >>

\* main: sock_shutdown(sockfd, 3) after send_image or get_image has returned;
\* from here on the server's reads see the end of the stream.
ClientShutdown ==
    /\ c_pc = "shutdown"
    /\ c_pc' = "done"
    /\ silent' = FALSE
    /\ UNCHANGED << serverVars, prev, codecVars, c_rpos, got, size_buf, img_size, left,
                    c_buf, img_fd, img_data, c_last >>
    /\ UNCHANGED << st_size, kvVars >>
    /\ UNCHANGED c_fault

ClientNext ==
    \/ ClientSendImage
    \/ ClientRecvOk
    \/ ClientGetImage
    \/ ClientRecvSize
    \/ ClientRecvBody
    \/ ClientShutdown
    \/ RecvCmdByte
    \/ RecvLength
    \/ OpenForWrite
    \/ RecvBodyChunk
    \/ SendAck
    \/ OpenForRead
    \/ SendLength
    \/ SendBodyChunk
    \/ RecvAck
    \/ Shutdown
    \/ CloseSock

SpecClient == ClientInit /\ [][ClientNext]_vars


\* C25: send_image, once the command, the length and the body are sent, does
\* not return before it has received exactly 3 bytes, over as many reads as
\* that takes, or a read has failed or returned 0; main shuts the socket down
\* only after the function has returned.
C25_WaitsForAck ==
    /\ [](c_pc = "wait_ok" => (got < 3 /\ silent))
    /\ [][(c_pc = "wait_ok" /\ c_pc' # "wait_ok") =>
             (c_pc' = "shutdown" /\ (got' = 3 \/ c_last' <= 0))]_vars
    /\ [][(c_pc = "wait_ok" /\ c_pc' = "wait_ok" /\ got' # got) =>
             (got' > got /\ got' < 3 /\ c_last' = got' - got)]_vars
    /\ [][(silent /\ ~silent') => c_pc = "shutdown"]_vars

C25_Witness ==
    /\ c_pc = "done" /\ branch = "send" /\ ~silent
    /\ got = 3 /\ c_rpos = 3 /\ c_last = 1
    /\ out = OK_REPLY

\* C30: client and server on a missing file: get_image decodes a length of 0,
\* reports the image as not found, creates no local file and returns; it
\* never takes the reply for a non-zero length and never waits for a body.
C30_MissingFileReported ==
    (failedAt = "notfound" /\ ~fault /\ c_rpos >= 4)
    => (img_size = 0 /\ img_fd = "none" /\ c_pc \in {"shutdown", "done"})


\* ------------------------------------------------------------- one session
\* One accepted connection from any peer, one that disconnects after its bytes
\* or one that stays connected and silent, run to its end.  The server is the
\* only process and takes its next step whenever one is possible.
LiveInit ==
    /\ variant \in Variants
    /\ \E files \in ServerFiles : Connected(files)
    /\ stream \in Streams
    /\ silent \in BOOLEAN
    /\ prev = NoPrev
    /\ st_size = <<0, 0, 0>>
    /\ KvOff
    /\ ClientOff
    /\ CodecOff

LiveNext ==
    \/ RecvCmdByte
    \/ RecvLength
    \/ OpenForWrite
    \/ RecvBodyChunk
    \/ SendAck
    \/ SendUnknown
    \/ OpenForRead
    \/ SendLength
    \/ SendBodyChunk
    \/ RecvAck
    \/ Shutdown
    \/ CloseSock

SpecLive == LiveInit /\ [][LiveNext]_vars /\ WF_vars(LiveNext)

\* The server inside a read that a silent peer never lets return.
Blocked ==
    /\ silent
    /\ Avail = 0
    /\ pc \in {"read_cmd", "recv_len", "recv_body", "wait_ack"}

\* C29: when every blocking read returns (data, end of stream or an error)
\* handle_client returns and the listener is back at accept; no loop runs
\* forever.  With a peer that stays connected and silent the session either
\* ends without needing it or reaches a read it never leaves: no timeout.
C29_SessionTerminates ==
    /\ (~silent) ~> (pc = "accept")
    /\ silent ~> (pc = "accept" \/ Blocked)
    /\ [][Blocked => (Blocked' /\ pc' = pc)]_vars

C29_Witness == Blocked /\ pc = "recv_body" /\ total = 1 /\ remaining = 1


\* ------------------------------------------- client and server, scheduled
\* The two programs are two processes: each takes its next step whenever it
\* has one.
ClientSteps ==
    \/ ClientSendImage
    \/ ClientRecvOk
    \/ ClientGetImage
    \/ ClientRecvSize
    \/ ClientRecvBody
    \/ ClientShutdown

ServerSteps ==
    \/ RecvCmdByte
    \/ RecvLength
    \/ OpenForWrite
    \/ RecvBodyChunk
    \/ SendAck
    \/ OpenForRead
    \/ SendLength
    \/ SendBodyChunk
    \/ RecvAck
    \/ Shutdown
    \/ CloseSock

SpecClientLive ==
    ClientInit /\ [][ClientNext]_vars /\ WF_vars(ClientSteps) /\ WF_vars(ServerSteps)

\* C31: the client's get_image and the native server on a file that exists:
\* unless one side meets an I/O failure, both terminate; the server leaves its
\* acknowledgment read only after the client has shut its socket down, and
\* with no byte read; the client's local file then holds the file's bytes.
C31_GetCompletes ==
    /\ (c_pc = "hdr" /\ variant = "native" /\ NameA \in DOMAIN fs)
          ~> ((pc = "accept" /\ c_pc = "done") \/ fault \/ failedAt # "none")
    /\ []((/\ variant = "native" /\ branch = "get" /\ pc = "accept" /\ c_pc = "done"
           /\ ~fault /\ failedAt = "none" /\ ~c_fault)
          => (/\ img_fd = "closed"
              /\ img_data = fs[NameA]
              /\ Len(img_data) = img_size
              /\ sock[nconn] = "closed"))
    /\ [][(variant = "native" /\ pc = "wait_ack" /\ pc' # "wait_ack")
             => (c_pc = "done" /\ rpos' = rpos /\ pc' = "close")]_vars

C31_Witness ==
    /\ variant = "native" /\ branch = "get" /\ pc = "accept" /\ c_pc = "done"
    /\ ~fault /\ failedAt = "none" /\ ~c_fault
    /\ img_fd = "closed" /\ img_data = <<1, 2>> /\ sock[nconn] = "closed"
    /\ rpos = Len(stream)


\* ------------------------------------------------------ the GET header alone
\* The size fstat reports, as three 16-bit parts << bits 47..32, 31..16, 15..0 >>,
\* and the header the GET branch makes of it.
SizeTops == {0, 1, 2}

FileSizes == SizeTops \X CodecHalves \X CodecHalves

\* uint32_t file_size = st.st_size: the low 32 bits of the 64-bit size.
ToUint32(s) == << s[2], s[3] >>

HeaderInit ==
    /\ variant \in Variants
    /\ ServerIdle(EmptyMap)
    /\ prev = NoPrev
    /\ silent = FALSE
    /\ ClientOff
    /\ CodecOff
    /\ KvOff
    /\ st_size \in FileSizes

\* GET: fstat, file_size, and the four header bytes.
HeaderEncode ==
    /\ codec_by = <<>>
    /\ codec_n' = ToUint32(st_size)
    /\ codec_bytes' = size_bytes_u32(codec_n')
    /\ codec_by' = << "server_get" >>
    /\ UNCHANGED << serverVars, prev, silent, clientVars, codec_out, st_size, kvVars >>

\* The peer: the length it decodes from the header.
HeaderDecode ==
    /\ Len(codec_by) = 1
    /\ codec_out' = get_image_img_size(codec_bytes)
    /\ codec_by' = Append(codec_by, "get_image")
    /\ UNCHANGED << serverVars, prev, silent, clientVars, codec_n, codec_bytes, st_size,
                    kvVars >>

HeaderNext == HeaderEncode \/ HeaderDecode

SpecHeader == HeaderInit /\ [][HeaderNext]_vars

\* C32: the length in a GET header is the size of the file in bytes, for
\* every size, sizes of 2^32 bytes and more included.
C32_HeaderIsFileSize ==
    /\ codec_by # <<>> =>
          st_size = << 0, (codec_bytes[1] * 256) + codec_bytes[2],
                          (codec_bytes[3] * 256) + codec_bytes[4] >>
    /\ Len(codec_by) = 2 => st_size = << 0 >> \o codec_out


\* ------------------------------------------------------- key-value server
\* kv_server.c: a table of at most MAX_ENTRIES keys with their values, one
\* command line per connection.
SET_VERB == <<83, 69, 84>>
DEL_VERB == <<68, 69, 76>>
QUIT_VERB == <<81, 85, 73, 84>>
MISSING_KEY_REPLY == <<69, 82, 82, 58, 32, 77, 105, 115, 115, 105, 110, 103, 32, 107, 101, 121, 10>>
MISSING_VALUE_REPLY == <<69, 82, 82, 58, 32, 77, 105, 115, 115, 105, 110, 103, 32, 118, 97, 108, 117, 101, 10>>
ERR1_REPLY == <<69, 82, 82, 32, 49, 10>>
VALUE_PREFIX == <<86, 65, 76, 85, 69, 32>>
KEY_NOT_FOUND_REPLY == <<69, 82, 82, 58, 32, 75, 101, 121, 32, 110, 111, 116, 32, 102, 111, 117, 110, 100, 10>>
DELETE_FAILED_REPLY == <<69, 82, 82, 58, 32, 70, 97, 105, 108, 101, 100, 32, 116, 111, 32, 100, 101, 108, 101, 116, 101, 10>>
BYE_REPLY == <<66, 89, 69, 10>>
KV_UNKNOWN_REPLY == <<69, 82, 82, 58, 32, 85, 110, 107, 110, 111, 119, 110, 32, 99, 111, 109, 109, 97, 110, 100, 10>>

\* trim_end of kv_server.c: trailing ' ', '\n', '\r' are removed.
trim_end(s) ==
    IF \A i \in 1..Len(s) : s[i] \in {SP, NL, CR} THEN <<>>
    ELSE Prefix(s, CHOOSE i \in 1..Len(s) :
                      /\ s[i] \notin {SP, NL, CR}
                      /\ \A j \in (i + 1)..Len(s) : s[j] \in {SP, NL, CR})

\* strncpy(dst, src, n) followed by dst[n] = '\0': at most n characters of src.
strncpy(src, n) == SubSeq(src, 1, Min(Len(src), n))

\* The loop for (i = 0; i < num_entries; i++) if (strcmp(keys[i], key) == 0):
\* the first slot in use that holds the key, 0 when there is none.
KeySlot(ks, n, key) ==
    IF \A i \in 1..n : ks[i] # key THEN 0
    ELSE CHOOSE i \in 1..n : ks[i] = key /\ \A j \in 1..(i - 1) : ks[j] # key

\* Faulty variant (sensitivity of C36): the capacity test off by one.
HasSpaceOffByOne(n) == n <= MAX_ENTRIES

\* set_key: if (num_entries < MAX_ENTRIES).
HasSpace(n) == n < MAX_ENTRIES

set_key(ks, vs, n, key, value) ==
    LET i == KeySlot(ks, n, key)
    IN  IF i # 0
        THEN [ret |-> 0, keys |-> ks,
              values |-> [vs EXCEPT ![i] = strncpy(value, MAX_VAL - 1)],
              num_entries |-> n]
        ELSE IF HasSpace(n)
        THEN [ret |-> 0,
              keys |-> [ks EXCEPT ![n + 1] = strncpy(key, MAX_KEY - 1)],
              values |-> [vs EXCEPT ![n + 1] = strncpy(value, MAX_VAL - 1)],
              num_entries |-> n + 1]
        ELSE [ret |-> -1, keys |-> ks, values |-> vs, num_entries |-> n]

get_key(ks, vs, n, key, maxlen) ==
    LET i == KeySlot(ks, n, key)
    IN  IF i # 0
        THEN [ret |-> 0, value_out |-> strncpy(vs[i], maxlen - 1)]
        ELSE [ret |-> -1, value_out |-> <<>>]

del_key(ks, vs, n, key) ==
    LET i == KeySlot(ks, n, key)
    IN  IF i # 0
        THEN [ret |-> 0,
              keys |-> IF i < n THEN [ks EXCEPT ![i] = ks[n]] ELSE ks,
              values |-> IF i < n THEN [vs EXCEPT ![i] = vs[n]] ELSE vs,
              num_entries |-> n - 1]
        ELSE [ret |-> -1, keys |-> ks, values |-> vs, num_entries |-> n]

\* strtok with the one delimiter d: the leading delimiters are skipped, the
\* token runs to the next delimiter or to the end, the scan resumes after it.
strtok(s, d) ==
    IF \A i \in 1..Len(s) : s[i] = d
    THEN [found |-> FALSE, tok |-> <<>>, rest |-> <<>>]
    ELSE \* a: the first byte that is not the delimiter; e: the first delimiter
         \* after it, or one past the end
         LET a == CHOOSE i \in 1..Len(s) : s[i] # d /\ \A j \in 1..(i - 1) : s[j] = d
             e == IF \A j \in a..Len(s) : s[j] # d THEN Len(s) + 1
                  ELSE CHOOSE j \in a..Len(s) : s[j] = d /\ \A k \in a..(j - 1) : s[k] # d
         IN  [found |-> TRUE, tok |-> SubSeq(s, a, e - 1),
              rest |-> SubSeq(s, e + 1, Len(s))]

toupper(c) == IF c \in 97..122 THEN c - 32 ELSE c

\* strcasecmp(a, b) == 0.
strcasecmp0(a, b) ==
    /\ Len(a) = Len(b)
    /\ \A i \in 1..Len(a) : toupper(a[i]) = toupper(b[i])

\* while (*value == ' ') value++.
SkipSpaces(s) ==
    IF \A i \in 1..Len(s) : s[i] = SP THEN <<>>
    ELSE Suffix(s, (CHOOSE i \in 1..Len(s) : s[i] # SP /\ \A j \in 1..(i - 1) : s[j] = SP) - 1)

\* The read loop of handle_client: the bytes up to the first newline, at most
\* MAX_CMD_SIZE - 1 of them.
KvLineEnd(line) ==
    IF \A i \in 1..Len(line) : ~LineComplete(line[i], i) THEN 0
    ELSE CHOOSE i \in 1..Len(line) :
            LineComplete(line[i], i) /\ \A j \in 1..(i - 1) : ~LineComplete(line[j], j)

\* handle_client on the bytes a peer sends: what is parsed, what the table
\* function returned, the reply handed to sock_send, and the table afterwards.
KvOutcome(ks, vs, n, line) ==
    LET same == [ret |-> 0, keys |-> ks, values |-> vs, num_entries |-> n]
        none(verb, reply) ==
            [verb |-> verb, fn |-> "none", key |-> <<>>, value |-> <<>>, reply |-> reply,
             tbl |-> same]
        cmd_buf_ == Prefix(line, KvLineEnd(line))
        t1 == strtok(cmd_buf_, SP)
    IN  IF KvLineEnd(line) = 0 THEN none("closed", <<>>)
        ELSE IF ~t1.found THEN none("nocmd", <<>>)
        ELSE IF strcasecmp0(t1.tok, SET_VERB)
        THEN LET t2 == strtok(t1.rest, SP)
                 t3 == strtok(t2.rest, NL)
             IN  IF ~t2.found THEN none("SET", MISSING_KEY_REPLY)
                 ELSE IF ~t3.found THEN none("SET", MISSING_VALUE_REPLY)
                 ELSE LET key == trim_end(t2.tok)
                          value == trim_end(SkipSpaces(t3.tok))
                          r == set_key(ks, vs, n, key, value)
                      IN  [verb |-> "SET", fn |-> "set_key", key |-> key, value |-> value,
                           reply |-> IF r.ret = 0 THEN OK_REPLY ELSE ERR1_REPLY,
                           tbl |-> r]
        ELSE IF strcasecmp0(t1.tok, GET_VERB)
        THEN LET t2 == strtok(t1.rest, NL)
             IN  IF ~t2.found THEN none("GET", MISSING_KEY_REPLY)
                 ELSE LET key == trim_end(t2.tok)
                          r == get_key(ks, vs, n, key, MAX_VAL)
                      IN  [verb |-> "GET", fn |-> "get_key", key |-> key, value |-> r.value_out,
                           reply |-> IF r.ret = 0
                                     THEN VALUE_PREFIX \o r.value_out \o <<NL>>
                                     ELSE KEY_NOT_FOUND_REPLY,
                           tbl |-> [same EXCEPT !.ret = r.ret]]
        ELSE IF strcasecmp0(t1.tok, DEL_VERB)
        THEN LET t2 == strtok(t1.rest, NL)
             IN  IF ~t2.found THEN none("DEL", MISSING_KEY_REPLY)
                 ELSE LET key == trim_end(t2.tok)
                          r == del_key(ks, vs, n, key)
                      IN  [verb |-> "DEL", fn |-> "del_key", key |-> key, value |-> <<>>,
                           reply |-> IF r.ret = 0 THEN OK_REPLY ELSE DELETE_FAILED_REPLY,
                           tbl |-> r]
        ELSE IF strcasecmp0(t1.tok, QUIT_VERB) THEN none("QUIT", BYE_REPLY)
        ELSE none("unknown", KV_UNKNOWN_REPLY)

\* sock_send of a reply of n bytes: all of it, all but the last byte, or nothing.
KvSendResults(n) == {s \in SendResults(n) : s \in {0, n - 1, n}}

\* One connection of the key-value server, from accept to close, its peer
\* sending one of the lines L; tables of more than cap entries are not explored.
KvHandle(L, cap) ==
    /\ \E line \in L :
          \E o \in {KvOutcome(keys, values, num_entries, line)} :
              /\ o.tbl.num_entries <= cap
              /\ keys' = o.tbl.keys
              /\ values' = o.tbl.values
              /\ num_entries' = o.tbl.num_entries
              /\ kv_ret' = o.tbl.ret
              /\ kv_cmd' = [verb |-> o.verb, fn |-> o.fn, key |-> o.key, value |-> o.value,
                            reply |-> o.reply]
              /\ \E s \in KvSendResults(Len(o.reply)) : kv_out' = Prefix(o.reply, s)
    /\ UNCHANGED << serverVars, prev, silent, clientVars, codecVars, st_size >>

\* The keys and values the peers use: "test1", "a", a key of MAX_KEY - 1
\* characters and one of MAX_KEY characters; the values "1" and "2".
KeyA == <<97>>

KeyTest1 == <<116, 101, 115, 116, 49>>

KeyFits == Fill(MAX_KEY - 1, 120)

KeyLong == Fill(MAX_KEY, 120)

KvKeys == {KeyTest1, KeyFits, KeyLong}

KvValues == {<<49>>, <<50>>}

KvLinesOf(K) ==
    {SET_VERB \o <<SP>> \o k \o <<SP>> \o v \o <<NL>> : k \in K, v \in KvValues}
    \cup {GET_VERB \o <<SP>> \o k \o <<NL>> : k \in K}
    \cup {DEL_VERB \o <<SP>> \o k \o <<NL>> : k \in K}
    \cup {SET_VERB \o <<SP>> \o KeyA \o <<NL>>, QUIT_VERB \o <<NL>>, <<NL>>, <<115, 101, 116>>}

\* main before its loop: set_key("test1", "value1"), set_key("test2", "value2").
KvStart ==
    LET z == [i \in 1..MAX_ENTRIES |-> <<>>]
        s1 == set_key(z, z, 0, KeyTest1, <<118, 97, 108, 117, 101, 49>>)
    IN  set_key(s1.keys, s1.values, s1.num_entries, <<116, 101, 115, 116, 50>>, <<118, 97, 108, 117, 101, 50>>)

KvIdle ==
    /\ variant = "wasi"
    /\ ServerIdle(EmptyMap)
    /\ prev = NoPrev
    /\ silent = FALSE
    /\ ClientOff
    /\ CodecOff
    /\ st_size = <<0, 0, 0>>
    /\ kv_cmd = <<>>
    /\ kv_ret = 0
    /\ kv_out = <<>>

KvInit ==
    /\ KvIdle
    /\ keys = KvStart.keys
    /\ values = KvStart.values
    /\ num_entries = KvStart.num_entries

\* The table is explored up to MaxSlots entries.
MaxSlots == 3

KvLines == KvLinesOf(KvKeys)

KvNext == KvHandle(KvLines, MaxSlots)

SpecKv == KvInit /\ [][KvNext]_vars


\* What get_key finds for k in the table before and after a step, and the keys
\* held by the slots in use.
Lookup(k) == get_key(keys, values, num_entries, k, MAX_VAL)

LookupAfter(k) == get_key(keys', values', num_entries', k, MAX_VAL)

StoredKeys == {keys[i] : i \in 1..num_entries}

\* C33: whatever commands were handled, with keys of any length a command
\* line can carry, 0 <= num_entries <= MAX_ENTRIES and no two slots in use
\* hold the same key.
C33_TableInvariant ==
    /\ num_entries >= 0
    /\ num_entries <= MAX_ENTRIES
    /\ \A i, j \in 1..num_entries : i # j => keys[i] # keys[j]

\* C34: after set_key(k, v) has returned 0, get_key(k) returns 0 and yields v,
\* until the next set_key or del_key on k; a set_key on an existing key leaves
\* num_entries as it was.  For every key and value a SET line can carry.
C34_SetThenGet ==
    /\ [][(kv_cmd'.fn = "set_key" /\ kv_ret' = 0) =>
             /\ LookupAfter(kv_cmd'.key) = [ret |-> 0, value_out |-> kv_cmd'.value]
             /\ (kv_cmd'.key \in StoredKeys => num_entries' = num_entries)]_vars
    /\ [][\A k \in KvKeys :
             (kv_cmd'.fn \in {"set_key", "del_key"} => kv_cmd'.key # k)
                => LookupAfter(k) = Lookup(k)]_vars

\* C35: del_key(k) on a present key returns 0, decrements num_entries, makes
\* get_key(k) fail afterwards and leaves what get_key finds for any other key;
\* on an absent key it returns -1 and leaves the table as it was.
C35_Delete ==
    [][kv_cmd'.fn = "del_key" =>
          IF kv_cmd'.key \in StoredKeys
          THEN /\ kv_ret' = 0
               /\ num_entries' = num_entries - 1
               /\ LookupAfter(kv_cmd'.key).ret = -1
               /\ \A k \in StoredKeys \ {kv_cmd'.key} : LookupAfter(k) = Lookup(k)
          ELSE /\ kv_ret' = -1
               /\ keys' = keys /\ values' = values /\ num_entries' = num_entries]_vars


\* ----------------------------------------------- key-value server, full
\* The table after main's two entries and SETs of the keys "k03", "k04", ...:
\* one entry short of MAX_ENTRIES, or full.
Filler(i) == << 107, 48 + (i \div 10), 48 + (i % 10) >>

FilledKeys(n) ==
    [i \in 1..MAX_ENTRIES |->
        IF i <= 2 THEN KvStart.keys[i] ELSE IF i <= n THEN Filler(i) ELSE <<>>]

FilledValues(n) ==
    [i \in 1..MAX_ENTRIES |->
        IF i <= 2 THEN KvStart.values[i] ELSE IF i <= n THEN <<118>> ELSE <<>>]

KvFullKeys == {KeyTest1, Filler(MAX_ENTRIES), KeyA, KeyLong}

KvFullLines == KvLinesOf(KvFullKeys)

KvFullInit ==
    /\ KvIdle
    /\ num_entries \in {MAX_ENTRIES - 1, MAX_ENTRIES}
    /\ keys = FilledKeys(num_entries)
    /\ values = FilledValues(num_entries)

KvFullNext == KvHandle(KvFullLines, MAX_ENTRIES + 1)

SpecKvFull == KvFullInit /\ [][KvFullNext]_vars

\* C36: with MAX_ENTRIES entries in the table, a SET of a new key is
\* rejected: set_key returns -1, keys, values and num_entries stay as they
\* were, and the reply is "ERR 1\n", not "OK\n"; a SET of a key that is
\* present still succeeds.
C36_FullTableRejects ==
    [][(kv_cmd'.fn = "set_key" /\ num_entries = MAX_ENTRIES) =>
          IF kv_cmd'.key \in StoredKeys
          THEN /\ kv_ret' = 0
               /\ kv_cmd'.reply = OK_REPLY
               /\ IsPrefix(kv_out', OK_REPLY)
               /\ LookupAfter(kv_cmd'.key) = [ret |-> 0, value_out |-> kv_cmd'.value]
               /\ keys' = keys /\ num_entries' = num_entries
          ELSE /\ kv_ret' = -1
               /\ keys' = keys /\ values' = values /\ num_entries' = num_entries
               /\ kv_cmd'.reply = ERR1_REPLY
               /\ IsPrefix(kv_out', ERR1_REPLY)]_vars

C36_Witness ==
    /\ num_entries = MAX_ENTRIES
    /\ kv_cmd # <<>> /\ kv_cmd.fn = "set_key" /\ kv_cmd.key = KeyA
    /\ kv_ret = -1
    /\ kv_out = ERR1_REPLY
    /\ KeyA \notin StoredKeys

=============================================================================
